---- MODULE Spec2Model ----
(***************************************************************************)
(* Model of the inference orchestration layer of the Lernplattform:        *)
(*   - the admission gate (ollamaSemaphore) and OllamaProvider.Generate    *)
(*     with its retry loop (internal/llm/provider.go),                     *)
(*   - OllamaProvider.GenerateStream's producer goroutine and its          *)
(*     consumer Handler.ChatStream (internal/storage/storage.go).          *)
(***************************************************************************)
EXTENDS Integers, Sequences, FiniteSets, TLC

(***************************************************************************)
(* Bounds of the model and constants of the program                        *)
(***************************************************************************)
\* number of goroutines that call the provider concurrently
NumCallers == 3

\* largest number of well-formed frames one streamed response carries
MaxFrames == 101

\* longest text (in tokens) handed to the extractor
MaxTextLen == 5

\* number of goroutines that call the provider when progress is checked
NumLiveCallers == 2

\* largest number of documents handed to the pipeline
MaxDocs == 3

\* largest number of topics handed to prioritizeWithExams on its own
MaxTopics == 3

\* largest number of reference documents handed to prioritizeWithExams
MaxExamDocs == 6

\* largest number of primary documents of a pipeline run whose model
\* override is followed
MaxModelDocs == 2

\* largest number of select-model requests during a pipeline run
MaxSelects == 2

\* number of study-plan requests that can be in the handler at a time
NumRequests == 3

\* capacity of ollamaSemaphore: make(chan struct{}, 1)
SemCap == 1

\* if len(content) > 2000 { content = content[:2000] }
MaxCharsPerExam == 2000

\* if examContent.Len() > 10000 { break }
MaxExamChars == 10000

\* pi = 999 / pj = 999 for a topic that is not in the ranking
UnrankedPriority == 999

\* ch := make(chan StreamChunk, 100)
ChanCap == 100

\* Generate passes maxRetries = 3 to generateWithRetry
MaxRetries == 3

\* time.Sleep(5 * time.Second) after a "terminated"/"500" error
CrashCooldownSec == 5

\* time.Sleep(time.Duration(attempt) * 2 * time.Second)
BackoffFactorSec == 2

Callers == 1..NumCallers
LiveCallers == 1..NumLiveCallers

(***************************************************************************)
(* State                                                                   *)
(***************************************************************************)
VARIABLES
    ollamaSemaphore, \* number of tokens buffered in the channel
    holders,         \* callers whose send into ollamaSemaphore succeeded and
                     \* whose deferred receive has not run yet
    pc,              \* position of each caller
    attempt,         \* loop variable of generateWithRetry
    lastErr,         \* lastErr of generateWithRetry
    result,          \* what the call returned to its caller
    ctxDone,         \* ctx.Err() != nil for the caller's context
    hist,            \* per call: outcome of each doGenerate, in order
    slept,           \* seconds slept since the previous attempt returned
    acq,             \* per call: number of completed acquireOllama
    rel              \* per call: number of completed releaseOllama

gateVars == <<ollamaSemaphore, holders, pc, attempt, lastErr, result,
              ctxDone, hist, slept, acq, rel>>

\* one GenerateStream call and its consumer Handler.ChatStream
VARIABLES
    ch,            \* the buffered channel ch: chunks sent and not yet received
    chClosed,      \* close(ch) has run
    bodyClosed,    \* resp.Body.Close() has run
    prodPc,        \* position of the producer goroutine
    pending,       \* the chunk of the send the producer is executing
    decoded,       \* kinds of the frames decoder.Decode has returned so far
    consPc,        \* position of Handler.ChatStream
    received,      \* chunks the range loop has received, in order
    streamCtxDone  \* the context of the streaming request is cancelled

streamVars == <<ch, chClosed, bodyClosed, prodPc, pending, decoded, consPc,
                received, streamCtxDone>>

\* one call of the structured extractor (extractJSON, parseTopicsFromResponse)
VARIABLES
    exText,        \* the text handed to the extractor
    exOut,         \* what extractJSON returned
    exParsed,      \* what parseTopicsFromResponse returned
    exPc           \* "idle", "ready", "extracted" or "parsed"

extractVars == <<exText, exOut, exParsed, exPc>>

\* one run of AgentPool.AnalyzeDocumentsParallel
VARIABLES
    documents,     \* the documents handed to the pipeline
    pipePc,        \* position of the pipeline
    uniqueDocs,    \* uniqueDocs := deduplicateDocuments(documents)
    mainDocs,      \* primary documents
    examDocs,      \* reference documents
    docIdx,        \* 1-based index of the next document of the loop
    allTopics,     \* allTopics of analyzeDocumentsSequentially
    successCount,  \* successCount of analyzeDocumentsSequentially
    lastResp,      \* text of the latest response of Generate
    lastGenErr,    \* the latest Generate returned an error
    mainTopics,    \* mainTopics of AnalyzeDocumentsParallel
    finalTopics,   \* the topics the pipeline returned
    pipeErr,       \* the pipeline returned a non-nil error
    pipeCtxDone,   \* the context of the pipeline is cancelled
    genCalls,      \* Generate calls issued for primary documents
    rankCalls,     \* Generate calls issued for the ranking
    analysisLog    \* per analyzeOneDocument call: the document, the outcome

pipeVars == <<documents, pipePc, uniqueDocs, mainDocs, examDocs, docIdx,
              allTopics, successCount, lastResp, lastGenErr, mainTopics,
              finalTopics, pipeErr, pipeCtxDone, genCalls, rankCalls,
              analysisLog>>

\* the reference content prioritizeWithExams collects for its prompt
VARIABLES
    examSizes,     \* len(doc.Content) of each reference document
    examParts,     \* length of the content written for each document
    examLen,       \* examContent.Len() after the loop
    examPc         \* position of the collection

examVars == <<examSizes, examParts, examLen, examPc>>

\* the provider's active model, the pipeline that overrides it, the
\* select-model handler and another caller of the provider
VARIABLES
    defaultModel,   \* OllamaProvider.defaultModel
    selected,       \* the model of the latest select-model request
    mPc,            \* position of the pipeline
    oldModel,       \* oldModel of the current call of the pipeline
    deferred,       \* defer ap.provider.SetModel(oldModel) is registered
    mDocsLeft,      \* primary documents still to analyse
    mRank,          \* the ranking call is still to come
    pipeUsed,       \* the model the pipeline's latest Generate used
    otherUsed,      \* the model the other caller's latest request used
    otherExpected,  \* the selected model at the time of that request
    otherDuring,    \* that request was issued while the pipeline ran
    pendingSel,     \* the model of a select-model request in progress
    selects,        \* select-model requests so far
    conflicts       \* accesses by others during the pipeline's override

modelVars == <<defaultModel, selected, mPc, oldModel, deferred, mDocsLeft,
               mRank, pipeUsed, otherUsed, otherExpected, otherDuring,
               pendingSel, selects, conflicts>>

\* Handler.CreateStudyPlan and its single-flight flag
VARIABLES
    studyPlanInProgress,  \* the package variable studyPlanInProgress
    studyPlanMutex,       \* the request that holds studyPlanMutex, or 0
    rPc,                  \* position of each request in CreateStudyPlan
    rStatus,              \* the HTTP status each request was answered with
    rAnalysed             \* the request called tutor.AnalyzeDocuments

planVars == <<studyPlanInProgress, studyPlanMutex, rPc, rStatus, rAnalysed>>

vars == <<gateVars, streamVars, extractVars, pipeVars, examVars, modelVars,
          planVars>>

\* values of (resp, err) / lastErr
NoValue == [kind |-> "none", attempt |-> 0, class |-> "none"]
Resp(k) == [kind |-> "resp", attempt |-> k, class |-> "none"]
Err(k, c) == [kind |-> "err", attempt |-> k, class |-> c]
CtxErr == [kind |-> "ctxErr", attempt |-> 0, class |-> "none"]

\* classes of the error text of a failed doGenerate:
\*   "crash": strings.Contains(err.Error(), "terminated") or "500"
\*   "other": any other text
ErrClasses == {"crash", "other"}
Outcomes == {"ok"} \cup ErrClasses

\* strings.Contains(err.Error(), "terminated") || strings.Contains(err.Error(), "500")
IsCrashError(c) == c = "crash"

GateInit ==
    /\ ollamaSemaphore = 0
    /\ holders = {}
    /\ pc = [p \in Callers |-> "idle"]
    /\ attempt = [p \in Callers |-> 0]
    /\ lastErr = [p \in Callers |-> NoValue]
    /\ result = [p \in Callers |-> NoValue]
    /\ ctxDone = [p \in Callers |-> FALSE]
    /\ hist = [p \in Callers |-> <<>>]
    /\ slept = [p \in Callers |-> 0]
    /\ acq = [p \in Callers |-> 0]
    /\ rel = [p \in Callers |-> 0]

(***************************************************************************)
(* Admission gate                                                          *)
(***************************************************************************)
\* acquireOllama with a buffer of two slots instead of one
acquireOllamaTwoSlots(p) ==
    /\ ollamaSemaphore < SemCap + 1
    /\ ollamaSemaphore' = ollamaSemaphore + 1
    /\ holders' = holders \cup {p}
    /\ acq' = [acq EXCEPT ![p] = @ + 1]

\* acquireOllama: ollamaSemaphore <- struct{}{} blocks while the buffer is full
acquireOllama(p) ==
    /\ ollamaSemaphore < SemCap
    /\ ollamaSemaphore' = ollamaSemaphore + 1
    /\ holders' = holders \cup {p}
    /\ acq' = [acq EXCEPT ![p] = @ + 1]

\* releaseOllama: <-ollamaSemaphore blocks while the buffer is empty
releaseOllama(p) ==
    /\ ollamaSemaphore > 0
    /\ ollamaSemaphore' = ollamaSemaphore - 1
    /\ holders' = holders \ {p}
    /\ rel' = [rel EXCEPT ![p] = @ + 1]

(***************************************************************************)
(* OllamaProvider.Generate                                                 *)
(***************************************************************************)
\* a goroutine calls Generate with a live context and reaches acquireOllama()
CallGenerate(p) ==
    /\ pc[p] = "idle"
    /\ pc' = [pc EXCEPT ![p] = "acquire"]
    /\ UNCHANGED <<ollamaSemaphore, holders, attempt, lastErr, result,
                   ctxDone, hist, slept, acq, rel>>

\* acquireOllama() returns; defer releaseOllama() is registered;
\* generateWithRetry starts with attempt := 1 and lastErr = nil
GenerateAcquire(p) ==
    /\ pc[p] = "acquire"
    /\ acquireOllama(p)
    /\ pc' = [pc EXCEPT ![p] = "loop"]
    /\ attempt' = [attempt EXCEPT ![p] = 1]
    /\ UNCHANGED <<lastErr, result, ctxDone, hist, slept, rel>>

\* the loop head with a backoff computed from the number of the attempt
\* that failed instead of the one about to start
RetryLoopHeadBackoffOfFailed(p) ==
    /\ pc[p] = "loop"
    /\ IF attempt[p] <= MaxRetries
       THEN /\ slept' = [slept EXCEPT ![p] =
                            IF attempt[p] > 1
                            THEN @ + (attempt[p] - 1) * BackoffFactorSec
                            ELSE @]
            /\ pc' = [pc EXCEPT ![p] = "call"]
            /\ UNCHANGED result
       ELSE /\ result' = [result EXCEPT ![p] = lastErr[p]]
            /\ pc' = [pc EXCEPT ![p] = "release"]
            /\ UNCHANGED slept
    /\ UNCHANGED <<ollamaSemaphore, holders, attempt, lastErr, ctxDone,
                   hist, acq, rel>>

\* the loop head with the condition attempt < maxRetries
RetryLoopHeadOffByOne(p) ==
    /\ pc[p] = "loop"
    /\ IF attempt[p] < MaxRetries
       THEN /\ slept' = [slept EXCEPT ![p] =
                            IF attempt[p] > 1
                            THEN @ + attempt[p] * BackoffFactorSec
                            ELSE @]
            /\ pc' = [pc EXCEPT ![p] = "call"]
            /\ UNCHANGED result
       ELSE /\ result' = [result EXCEPT ![p] = lastErr[p]]
            /\ pc' = [pc EXCEPT ![p] = "release"]
            /\ UNCHANGED slept
    /\ UNCHANGED <<ollamaSemaphore, holders, attempt, lastErr, ctxDone,
                   hist, acq, rel>>

\* head of the for loop: attempt <= maxRetries, the backoff sleep for
\* attempt > 1, then the call of doGenerate; or the loop ends and
\* generateWithRetry returns nil, lastErr
RetryLoopHead(p) ==
    /\ pc[p] = "loop"
    /\ IF attempt[p] <= MaxRetries
       THEN /\ slept' = [slept EXCEPT ![p] =
                            IF attempt[p] > 1
                            THEN @ + attempt[p] * BackoffFactorSec
                            ELSE @]
            /\ pc' = [pc EXCEPT ![p] = "call"]
            /\ UNCHANGED result
       ELSE /\ result' = [result EXCEPT ![p] = lastErr[p]]
            /\ pc' = [pc EXCEPT ![p] = "release"]
            /\ UNCHANGED slept
    /\ UNCHANGED <<ollamaSemaphore, holders, attempt, lastErr, ctxDone,
                   hist, acq, rel>>

\* a successful attempt that does not return: the response is dropped and
\* the loop goes on
AttemptSucceededNoReturn(p) ==
    /\ slept' = [slept EXCEPT ![p] = 0]
    /\ attempt' = [attempt EXCEPT ![p] = @ + 1]
    /\ pc' = [pc EXCEPT ![p] = "loop"]
    /\ UNCHANGED <<result, lastErr>>

\* if err == nil { return resp, nil }
AttemptSucceeded(p) ==
    /\ result' = [result EXCEPT ![p] = Resp(attempt[p])]
    /\ pc' = [pc EXCEPT ![p] = "release"]
    /\ slept' = [slept EXCEPT ![p] = 0]
    /\ UNCHANGED <<attempt, lastErr>>

\* the error text contains "terminated" or "500":
\* time.Sleep(5 * time.Second); continue
AttemptCrashed(p) ==
    /\ slept' = [slept EXCEPT ![p] = CrashCooldownSec]
    /\ attempt' = [attempt EXCEPT ![p] = @ + 1]
    /\ pc' = [pc EXCEPT ![p] = "loop"]
    /\ UNCHANGED result

\* any other error text: if ctx.Err() != nil { return nil, ctx.Err() },
\* else the loop goes to its next iteration
AttemptFailedOther(p) ==
    IF ctxDone[p]
    THEN /\ result' = [result EXCEPT ![p] = CtxErr]
         /\ pc' = [pc EXCEPT ![p] = "release"]
         /\ slept' = [slept EXCEPT ![p] = 0]
         /\ UNCHANGED attempt
    ELSE /\ slept' = [slept EXCEPT ![p] = 0]
         /\ attempt' = [attempt EXCEPT ![p] = @ + 1]
         /\ pc' = [pc EXCEPT ![p] = "loop"]
         /\ UNCHANGED result

\* what generateWithRetry does with the (resp, err) of one doGenerate:
\* out is "ok" or the class of the error text
AfterAttempt(p, out) ==
    /\ hist' = [hist EXCEPT ![p] =
                   Append(@, [out |-> out, cancelled |-> ctxDone[p]])]
    /\ IF out = "ok"
       THEN AttemptSucceeded(p)
       ELSE /\ lastErr' = [lastErr EXCEPT ![p] = Err(attempt[p], out)]
            /\ IF IsCrashError(out)
               THEN AttemptCrashed(p)
               ELSE AttemptFailedOther(p)

\* doGenerate that gives the slot back when its attempt failed, so that the
\* gate is held per attempt and not for the whole loop
DoGenerateReturnReleasing(p) ==
    /\ pc[p] = "call"
    /\ \E out \in Outcomes :
          /\ (ctxDone[p] => out # "ok")
          /\ AfterAttempt(p, out)
    /\ IF pc'[p] = "loop"
       THEN releaseOllama(p)
       ELSE UNCHANGED <<ollamaSemaphore, holders, rel>>
    /\ UNCHANGED <<ctxDone, acq>>

\* doGenerate returns: the request succeeds only under a live context; an
\* error may carry any text (the text of a network error includes the
\* configured URL, an error status includes the response body)
DoGenerateReturn(p) ==
    /\ pc[p] = "call"
    /\ \E out \in Outcomes :
          /\ (ctxDone[p] => out # "ok")
          /\ AfterAttempt(p, out)
    /\ UNCHANGED <<ollamaSemaphore, holders, ctxDone, acq, rel>>

\* Generate with a release that is missing on the cancellation return
GenerateReleaseNotOnCancel(p) ==
    /\ pc[p] = "release"
    /\ IF result[p] = CtxErr
       THEN UNCHANGED <<ollamaSemaphore, holders, rel>>
       ELSE releaseOllama(p)
    /\ pc' = [pc EXCEPT ![p] = "done"]
    /\ attempt' = [attempt EXCEPT ![p] = 0]
    /\ lastErr' = [lastErr EXCEPT ![p] = NoValue]
    /\ hist' = [hist EXCEPT ![p] = <<>>]
    /\ slept' = [slept EXCEPT ![p] = 0]
    /\ UNCHANGED <<result, ctxDone, acq>>

\* the deferred releaseOllama() runs and Generate returns to its caller;
\* the locals of generateWithRetry are gone with its frame
GenerateRelease(p) ==
    /\ pc[p] = "release"
    /\ releaseOllama(p)
    /\ pc' = [pc EXCEPT ![p] = "done"]
    /\ attempt' = [attempt EXCEPT ![p] = 0]
    /\ lastErr' = [lastErr EXCEPT ![p] = NoValue]
    /\ hist' = [hist EXCEPT ![p] = <<>>]
    /\ slept' = [slept EXCEPT ![p] = 0]
    /\ UNCHANGED <<result, ctxDone, acq>>

\* the caller's context is cancelled or reaches its deadline
CancelCtx(p) ==
    /\ pc[p] \in {"acquire", "loop", "call"}
    /\ ~ctxDone[p]
    /\ ctxDone' = [ctxDone EXCEPT ![p] = TRUE]
    /\ UNCHANGED <<ollamaSemaphore, holders, pc, attempt, lastErr, result,
                   hist, slept, acq, rel>>

\* the goroutine has consumed the result and is free for the next request
CallerReturn(p) ==
    /\ pc[p] = "done"
    /\ pc' = [pc EXCEPT ![p] = "idle"]
    /\ attempt' = [attempt EXCEPT ![p] = 0]
    /\ lastErr' = [lastErr EXCEPT ![p] = NoValue]
    /\ result' = [result EXCEPT ![p] = NoValue]
    /\ ctxDone' = [ctxDone EXCEPT ![p] = FALSE]
    /\ hist' = [hist EXCEPT ![p] = <<>>]
    /\ slept' = [slept EXCEPT ![p] = 0]
    /\ acq' = [acq EXCEPT ![p] = 0]
    /\ rel' = [rel EXCEPT ![p] = 0]
    /\ UNCHANGED <<ollamaSemaphore, holders>>

(***************************************************************************)
(* OllamaProvider.GenerateStream and OllamaProvider.Chat as seen by the    *)
(* backend: the request is in flight from client.Do until the response     *)
(* body has been read                                                      *)
(***************************************************************************)
\* GenerateStream: o.client.Do(req) is issued without acquireOllama
StreamRequestStart(p) ==
    /\ pc[p] = "idle"
    /\ pc' = [pc EXCEPT ![p] = "stream"]
    /\ UNCHANGED <<ollamaSemaphore, holders, attempt, lastErr, result,
                   ctxDone, hist, slept, acq, rel>>

\* the producer goroutine has read the last frame and closed the body
StreamRequestEnd(p) ==
    /\ pc[p] = "stream"
    /\ pc' = [pc EXCEPT ![p] = "done"]
    /\ UNCHANGED <<ollamaSemaphore, holders, attempt, lastErr, result,
                   ctxDone, hist, slept, acq, rel>>

\* Chat: o.client.Do(req) is issued without acquireOllama
ChatRequestStart(p) ==
    /\ pc[p] = "idle"
    /\ pc' = [pc EXCEPT ![p] = "chat"]
    /\ UNCHANGED <<ollamaSemaphore, holders, attempt, lastErr, result,
                   ctxDone, hist, slept, acq, rel>>

\* Chat has decoded the response (or failed) and returns
ChatRequestEnd(p) ==
    /\ pc[p] = "chat"
    /\ pc' = [pc EXCEPT ![p] = "done"]
    /\ UNCHANGED <<ollamaSemaphore, holders, attempt, lastErr, result,
                   ctxDone, hist, slept, acq, rel>>

(***************************************************************************)
(* OllamaProvider.GenerateStream: producer goroutine, and its consumer     *)
(* Handler.ChatStream                                                      *)
(***************************************************************************)
\* StreamChunk{Content, Done, Error}; the content of frame i is its index i
ContentChunk(i) == [content |-> i, done |-> FALSE, error |-> FALSE]
DoneChunk(i) == [content |-> i, done |-> TRUE, error |-> FALSE]
ErrorChunk == [content |-> 0, done |-> FALSE, error |-> TRUE]
NoChunk == [content |-> 0, done |-> FALSE, error |-> FALSE]

StreamInit ==
    /\ ch = <<>>
    /\ chClosed = FALSE
    /\ bodyClosed = FALSE
    /\ prodPc = "none"
    /\ pending = NoChunk
    /\ decoded = <<>>
    /\ consPc = "none"
    /\ received = <<>>
    /\ streamCtxDone = FALSE

\* the deferred calls of the producer goroutine:
\* defer resp.Body.Close() runs, then defer close(ch)
ProducerExit ==
    /\ bodyClosed' = TRUE
    /\ chClosed' = TRUE
    /\ prodPc' = "exited"

\* ChatStream calls GenerateStream and client.Do succeeds: the channel is
\* made, the goroutine is started and ChatStream enters its range loop
GenerateStream ==
    /\ consPc = "none"
    /\ prodPc' = "decode"
    /\ consPc' = "range"
    /\ UNCHANGED <<ch, chClosed, bodyClosed, pending, decoded, received,
                   streamCtxDone>>

\* client.Do (or building the request) fails: GenerateStream returns
\* nil, err; ChatStream reports the error and returns
GenerateStreamFails ==
    /\ consPc = "none"
    /\ consPc' = "returned"
    /\ streamCtxDone' = TRUE
    /\ UNCHANGED <<ch, chClosed, bodyClosed, prodPc, pending, decoded,
                   received>>

\* decoder.Decode(&chunk) returns a frame: the producer goes on to
\* ch <- StreamChunk{Content, Done}
ProducerDecodeFrame ==
    /\ prodPc = "decode"
    /\ Len(decoded) < MaxFrames
    /\ \E d \in BOOLEAN :
          /\ decoded' = Append(decoded, IF d THEN "done" ELSE "partial")
          /\ pending' = IF d THEN DoneChunk(Len(decoded) + 1)
                             ELSE ContentChunk(Len(decoded) + 1)
    /\ prodPc' = "send"
    /\ UNCHANGED <<ch, chClosed, bodyClosed, consPc, received, streamCtxDone>>

\* decoder.Decode returns an error other than io.EOF (malformed frame, read
\* error, cancelled context): the producer goes on to
\* ch <- StreamChunk{Error: err}
ProducerDecodeError ==
    /\ prodPc = "decode"
    /\ pending' = ErrorChunk
    /\ prodPc' = "send"
    /\ UNCHANGED <<ch, chClosed, bodyClosed, decoded, consPc, received,
                   streamCtxDone>>

\* decoder.Decode returns io.EOF: return without sending anything
ProducerDecodeEOF ==
    /\ prodPc = "decode"
    /\ ProducerExit
    /\ UNCHANGED <<ch, pending, decoded, consPc, received, streamCtxDone>>

\* a producer that goes on decoding after it has sent a done chunk
ProducerSendNoStopOnDone ==
    /\ prodPc = "send"
    /\ Len(ch) < ChanCap
    /\ ch' = Append(ch, pending)
    /\ pending' = NoChunk
    /\ IF pending.error
       THEN ProducerExit
       ELSE /\ prodPc' = "decode"
            /\ UNCHANGED <<bodyClosed, chClosed>>
    /\ UNCHANGED <<decoded, consPc, received, streamCtxDone>>

\* the send ch <- chunk completes (it blocks while the buffer is full);
\* after an error chunk or a done chunk the goroutine returns
ProducerSend ==
    /\ prodPc = "send"
    /\ Len(ch) < ChanCap
    /\ ch' = Append(ch, pending)
    /\ pending' = NoChunk
    /\ IF pending.error \/ pending.done
       THEN ProducerExit
       ELSE /\ prodPc' = "decode"
            /\ UNCHANGED <<bodyClosed, chClosed>>
    /\ UNCHANGED <<decoded, consPc, received, streamCtxDone>>

\* one iteration of "for chunk := range chunks": an error chunk is
\* reported and ChatStream returns (which cancels r.Context()); any other
\* chunk is written to the websocket
ConsumerReceive ==
    /\ consPc = "range"
    /\ ch # <<>>
    /\ received' = Append(received, Head(ch))
    /\ ch' = Tail(ch)
    /\ IF Head(ch).error
       THEN /\ consPc' = "returned"
            /\ streamCtxDone' = TRUE
       ELSE UNCHANGED <<consPc, streamCtxDone>>
    /\ UNCHANGED <<chClosed, bodyClosed, prodPc, pending, decoded>>

\* the range loop ends: the channel is closed and drained
ConsumerRangeEnd ==
    /\ consPc = "range"
    /\ ch = <<>>
    /\ chClosed
    /\ consPc' = "returned"
    /\ streamCtxDone' = TRUE
    /\ UNCHANGED <<ch, chClosed, bodyClosed, prodPc, pending, decoded,
                   received>>

\* conn.WriteJSON has no write deadline: when the peer stops reading, the
\* write of a received chunk never returns and ChatStream stops receiving
ConsumerStall ==
    /\ consPc = "range"
    /\ received # <<>>
    /\ consPc' = "stalled"
    /\ UNCHANGED <<ch, chClosed, bodyClosed, prodPc, pending, decoded,
                   received, streamCtxDone>>

\* the context of the request (http.NewRequestWithContext(ctx, ...)) is
\* cancelled or times out while the stream is open
StreamCancel ==
    /\ prodPc \in {"decode", "send"}
    /\ ~streamCtxDone
    /\ streamCtxDone' = TRUE
    /\ UNCHANGED <<ch, chClosed, bodyClosed, prodPc, pending, decoded,
                   consPc, received>>

(***************************************************************************)
(* Structured extractor (internal/llm/tutor.go)                            *)
(***************************************************************************)
\* A name is a word and its letter case; strings.ToLower drops the case.
TopicBases == {"x", "y", "z"}
TopicNames == [base : TopicBases, upper : BOOLEAN]
TName(b, u) == [base |-> b, upper |-> u]

\* strings.ToLower(name)
ToLower(n) == [n EXCEPT !.upper = FALSE]

\* models.Topic: the name, and the description that tells two topics apart
Topic(n, d) == [name |-> n, desc |-> d]

\* A text is a sequence of tokens: the byte '{', the byte '}', a byte of
\* prose, or the text of one object member ("topics": [...] and/or
\* "priority": [...]) with the lists it decodes to.
Tok(c, ts, pr) == [c |-> c, topics |-> ts, priority |-> pr]
OpenBrace == Tok("{", <<>>, <<>>)
CloseBrace == Tok("}", <<>>, <<>>)
Prose == Tok("p", <<>>, <<>>)
TopicsMember(ts) == Tok("m", ts, <<>>)
PriorityMember(pr) == Tok("m", <<>>, pr)

\* strings.Index(text, c): 0-based position of the first c, or -1
Index(text, c) ==
    IF \E i \in 1..Len(text) : text[i].c = c
    THEN (CHOOSE i \in 1..Len(text) :
              /\ text[i].c = c
              /\ \A j \in 1..(i - 1) : text[j].c # c) - 1
    ELSE -1

\* strings.LastIndex(text, c): 0-based position of the last c, or -1
LastIndex(text, c) ==
    IF \E i \in 1..Len(text) : text[i].c = c
    THEN (CHOOSE i \in 1..Len(text) :
              /\ text[i].c = c
              /\ \A j \in (i + 1)..Len(text) : text[j].c # c) - 1
    ELSE -1

\* the literal "{}"
EmptyObject == <<OpenBrace, CloseBrace>>

\* extractJSON without the test start >= end
extractJSONNoOrderCheck(text) ==
    LET start == Index(text, "{")
        end == LastIndex(text, "}")
    IN  IF start = -1 \/ end = -1
        THEN EmptyObject
        ELSE SubSeq(text, start + 1, end + 1)

\* extractJSON cut at the first '}' instead of the last one
extractJSONFirstClose(text) ==
    LET start == Index(text, "{")
        end == Index(text, "}")
    IN  IF start = -1 \/ end = -1 \/ start >= end
        THEN EmptyObject
        ELSE SubSeq(text, start + 1, end + 1)

\* extractJSON: text[start : end+1], or "{}"
extractJSON(text) ==
    LET start == Index(text, "{")
        end == LastIndex(text, "}")
    IN  IF start = -1 \/ end = -1 \/ start >= end
        THEN EmptyObject
        ELSE SubSeq(text, start + 1, end + 1)

\* json.Unmarshal accepts the text of one object: "{}" or one member
\* between braces; prose inside the braces, nested bare braces or a
\* second object make it fail
JsonValid(js) ==
    \/ js = EmptyObject
    \/ /\ Len(js) = 3
       /\ js[1] = OpenBrace
       /\ js[2].c = "m"
       /\ js[3] = CloseBrace

\* the member of a decoded object (absent keys decode to empty lists)
JsonMember(js) == IF Len(js) = 3 THEN js[2] ELSE Tok("m", <<>>, <<>>)

\* parseTopicsFromResponse: (topics, err)
parseTopicsFromResponse(response) ==
    LET jsonStr == extractJSON(response)
    IN  IF JsonValid(jsonStr)
        THEN [err |-> FALSE, topics |-> JsonMember(jsonStr).topics]
        ELSE [err |-> TRUE, topics |-> <<>>]

\* texts of at most n tokens over the token set T
TextsUpTo(T, n) == UNION {[1..k -> T] : k \in 0..n}

\* the tokens of the texts the extractor is exercised with
ExtractTokens ==
    {OpenBrace, CloseBrace, Prose, TopicsMember(<<Topic(TName("x", FALSE), 1)>>)}

NoParse == [err |-> FALSE, topics |-> <<>>]

ExtractIdle ==
    /\ exText = <<>>
    /\ exOut = <<>>
    /\ exParsed = NoParse
    /\ exPc = "idle"

ExtractInit ==
    /\ exText \in TextsUpTo(ExtractTokens, MaxTextLen)
    /\ exOut = <<>>
    /\ exParsed = NoParse
    /\ exPc = "ready"

\* a caller runs extractJSON(text)
CallExtractJSON ==
    /\ exPc = "ready"
    /\ exOut' = extractJSON(exText)
    /\ exPc' = "extracted"
    /\ UNCHANGED <<exText, exParsed>>

\* a caller runs parseTopicsFromResponse(text)
CallParseTopics ==
    /\ exPc = "ready"
    /\ exOut' = extractJSON(exText)
    /\ exParsed' = parseTopicsFromResponse(exText)
    /\ exPc' = "parsed"
    /\ UNCHANGED exText

(***************************************************************************)
(* Document analysis pipeline (AgentPool, internal/llm/provider.go)        *)
(***************************************************************************)
\* The name of a document: a word, its letter case, and whether the
\* lower-cased name contains "klausur" or "übung".
DocName(b, u, e) == [base |-> b, upper |-> u, exam |-> e]
DocNames ==
    {DocName("skript", FALSE, FALSE), DocName("skript", TRUE, FALSE),
     DocName("folien", FALSE, FALSE), DocName("klausur", FALSE, TRUE)}

\* models.Document: the name, and the ID that tells two documents apart
Doc(n, i) == [name |-> n, id |-> i]

\* the document lists a request can carry: at least one document
\* (CreateStudyPlan rejects a request without documents), each with the
\* place of its ID in the request
DocumentLists ==
    UNION {{[i \in 1..k |-> Doc(f[i], i)] : f \in [1..k -> DocNames]} :
              k \in 1..MaxDocs}

\* deduplicateDocuments that forgets the names it has seen after the first
\* duplicate it dropped
RECURSIVE DedupDocsOnce(_, _, _, _)
DedupDocsOnce(docs, seen, kept, dropped) ==
    IF docs = <<>> THEN kept
    ELSE LET doc == Head(docs)
         IN  IF doc.name \in seen /\ ~dropped
             THEN DedupDocsOnce(Tail(docs), seen, kept, TRUE)
             ELSE DedupDocsOnce(Tail(docs), seen \cup {doc.name},
                                Append(kept, doc), dropped)

deduplicateDocumentsOnce(docs) == DedupDocsOnce(docs, {}, <<>>, FALSE)

\* deduplicateDocuments with the key strings.ToLower(doc.Name)
RECURSIVE DedupDocsLower(_, _, _)
DedupDocsLower(docs, seen, kept) ==
    IF docs = <<>> THEN kept
    ELSE LET doc == Head(docs)
             key == [doc.name EXCEPT !.upper = FALSE]
         IN  IF key \notin seen
             THEN DedupDocsLower(Tail(docs), seen \cup {key},
                                 Append(kept, doc))
             ELSE DedupDocsLower(Tail(docs), seen, kept)

deduplicateDocumentsLower(docs) == DedupDocsLower(docs, {}, <<>>)

\* the loop of deduplicateDocuments: seen is the map, kept the slice
RECURSIVE DedupDocsLoop(_, _, _)
DedupDocsLoop(docs, seen, kept) ==
    IF docs = <<>> THEN kept
    ELSE LET doc == Head(docs)
         IN  IF doc.name \notin seen
             THEN DedupDocsLoop(Tail(docs), seen \cup {doc.name},
                                Append(kept, doc))
             ELSE DedupDocsLoop(Tail(docs), seen, kept)

\* deduplicateDocuments (the fallback of Tutor.AnalyzeDocuments runs the
\* same loop)
deduplicateDocuments(docs) == DedupDocsLoop(docs, {}, <<>>)

\* strings.Contains(nameLower, "klausur") || strings.Contains(nameLower, "übung")
IsExamName(n) == n.exam

\* categorizeDocuments: (main, exams)
categorizeDocuments(docs) ==
    [main |-> SelectSeq(docs, LAMBDA d : ~IsExamName(d.name)),
     exams |-> SelectSeq(docs, LAMBDA d : IsExamName(d.name))]

\* deduplicateTopics with the exact name as key
RECURSIVE DedupTopicsExact(_, _, _)
DedupTopicsExact(topics, seen, kept) ==
    IF topics = <<>> THEN kept
    ELSE LET t == Head(topics)
         IN  IF t.name \notin seen
             THEN DedupTopicsExact(Tail(topics), seen \cup {t.name},
                                   Append(kept, t))
             ELSE DedupTopicsExact(Tail(topics), seen, kept)

deduplicateTopicsExact(topics) == DedupTopicsExact(topics, {}, <<>>)

\* the loop of deduplicateTopics: key := strings.ToLower(t.Name)
RECURSIVE DedupTopicsLoop(_, _, _)
DedupTopicsLoop(topics, seen, kept) ==
    IF topics = <<>> THEN kept
    ELSE LET t == Head(topics)
             key == ToLower(t.name)
         IN  IF key \notin seen
             THEN DedupTopicsLoop(Tail(topics), seen \cup {key},
                                  Append(kept, t))
             ELSE DedupTopicsLoop(Tail(topics), seen, kept)

\* deduplicateTopics
deduplicateTopics(topics) == DedupTopicsLoop(topics, {}, <<>>)

\* priorityMap[strings.ToLower(name)] = i: a later entry overwrites an
\* earlier one; the lookup gives ok = FALSE for a name that is absent
InPriorityMap(priority, n) ==
    \E i \in 1..Len(priority) : ToLower(priority[i]) = ToLower(n)

PriorityMapValue(priority, n) ==
    (CHOOSE i \in 1..Len(priority) :
        /\ ToLower(priority[i]) = ToLower(n)
        /\ \A j \in (i + 1)..Len(priority) :
              ToLower(priority[j]) # ToLower(n)) - 1

\* pi / pj of the sort, with 999 for a topic that is not in the map
SortKey(priority, t) ==
    IF InPriorityMap(priority, t.name)
    THEN PriorityMapValue(priority, t.name)
    ELSE UnrankedPriority

\* the exchange of the sort written as two assignments: the element at i
\* is overwritten before it is copied
SwapOverwrite(sq, i, j) == [sq EXCEPT ![i] = sq[j], ![j] = sq[j]]

Swap(sq, i, j) == [sq EXCEPT ![i] = sq[j], ![j] = sq[i]]

\* inner loop: for j := i + 1; j < len; j++ { if pj < pi { swap } }
RECURSIVE SortInner(_, _, _, _)
SortInner(sq, i, j, priority) ==
    IF j > Len(sq) THEN sq
    ELSE SortInner(IF SortKey(priority, sq[j]) < SortKey(priority, sq[i])
                   THEN Swap(sq, i, j) ELSE sq,
                   i, j + 1, priority)

\* outer loop: for i := 0; i < len; i++
RECURSIVE SortOuter(_, _, _)
SortOuter(sq, i, priority) ==
    IF i > Len(sq) THEN sq
    ELSE SortOuter(SortInner(sq, i, i + 1, priority), i + 1, priority)

\* the sort of prioritizeWithExams on a copy of topics
SortByPriority(topics, priority) == SortOuter(topics, 1, priority)

\* the outcome of one Generate call as its callers see it
GenError == [err |-> TRUE, text |-> <<>>]
GenText(text) == [err |-> FALSE, text |-> text]

\* the inline extraction of prioritizeWithExams: jsonStr[start : end+1]
\* when both braces exist (a slice with start > end+1 panics), else the
\* whole text
InlineExtract(text) ==
    LET start == Index(text, "{")
        end == LastIndex(text, "}")
    IN  IF start # -1 /\ end # -1
        THEN IF start > end + 1
             THEN [panic |-> TRUE, json |-> <<>>]
             ELSE [panic |-> FALSE, json |-> SubSeq(text, start + 1, end + 1)]
        ELSE [panic |-> FALSE, json |-> text]

\* prioritizeWithExams: the topics it returns, whether it panicked,
\* whether it issued its Generate call, and what the caller's slice holds
\* afterwards (the sort works on sortedTopics, a copy); gen is the outcome
\* of the Generate call
prioritizeWithExams(topics, exams, gen) ==
    IF Len(exams) = 0 \/ Len(topics) = 0
    THEN [topics |-> topics, panic |-> FALSE, called |-> FALSE,
          input |-> topics]
    ELSE IF gen.err
    THEN [topics |-> topics, panic |-> FALSE, called |-> TRUE,
          input |-> topics]
    ELSE LET ex == InlineExtract(gen.text)
         IN  IF ex.panic
             THEN [topics |-> <<>>, panic |-> TRUE, called |-> TRUE,
                   input |-> topics]
             ELSE IF ~JsonValid(ex.json)
             THEN [topics |-> topics, panic |-> FALSE, called |-> TRUE,
                   input |-> topics]
             ELSE [topics |-> SortByPriority(topics,
                                             JsonMember(ex.json).priority),
                   panic |-> FALSE, called |-> TRUE, input |-> topics]

\* response texts of the analysis calls
AnalysisTexts ==
    {<<>>, <<Prose>>, <<OpenBrace>>, <<CloseBrace>>,
     <<CloseBrace, OpenBrace>>, <<Prose, CloseBrace, Prose, OpenBrace>>,
     EmptyObject, <<OpenBrace, Prose, CloseBrace>>,
     <<OpenBrace, TopicsMember(<<Topic(TName("x", FALSE), 1)>>), CloseBrace>>,
     <<Prose, OpenBrace,
       TopicsMember(<<Topic(TName("x", TRUE), 2), Topic(TName("y", FALSE), 3)>>),
       CloseBrace, Prose>>}

\* response texts of the ranking call
RankTexts ==
    {<<Prose>>, <<CloseBrace, Prose, OpenBrace>>, EmptyObject,
     <<OpenBrace, Prose, CloseBrace>>,
     <<Prose, OpenBrace, PriorityMember(<<TName("y", FALSE)>>), CloseBrace>>,
     <<OpenBrace, PriorityMember(<<TName("y", TRUE), TName("x", FALSE)>>),
       CloseBrace>>,
     <<OpenBrace,
       PriorityMember(<<TName("x", FALSE), TName("y", FALSE),
                        TName("x", TRUE)>>),
       CloseBrace>>}

PipeIdle ==
    /\ documents = <<>>
    /\ pipePc = "idle"
    /\ uniqueDocs = <<>>
    /\ mainDocs = <<>>
    /\ examDocs = <<>>
    /\ docIdx = 0
    /\ allTopics = <<>>
    /\ successCount = 0
    /\ lastResp = <<>>
    /\ lastGenErr = FALSE
    /\ mainTopics = <<>>
    /\ finalTopics = <<>>
    /\ pipeErr = FALSE
    /\ pipeCtxDone = FALSE
    /\ genCalls = 0
    /\ rankCalls = 0
    /\ analysisLog = <<>>

PipeInit ==
    /\ documents \in DocumentLists
    /\ pipePc = "start"
    /\ uniqueDocs = <<>>
    /\ mainDocs = <<>>
    /\ examDocs = <<>>
    /\ docIdx = 0
    /\ allTopics = <<>>
    /\ successCount = 0
    /\ lastResp = <<>>
    /\ lastGenErr = FALSE
    /\ mainTopics = <<>>
    /\ finalTopics = <<>>
    /\ pipeErr = FALSE
    /\ pipeCtxDone = FALSE
    /\ genCalls = 0
    /\ rankCalls = 0
    /\ analysisLog = <<>>

\* the topic lists prioritizeWithExams is applied to: Description tells
\* two topics of the same name apart
TopicLists ==
    UNION {{[i \in 1..k |-> Topic(f[i], i)] : f \in [1..k -> TopicNames]} :
              k \in 1..MaxTopics}

\* the pipeline at the call of prioritizeWithExams, with one reference
\* document and the topics of the one primary document
RankInit ==
    /\ documents = <<Doc(DocName("skript", FALSE, FALSE), 1),
                     Doc(DocName("klausur", FALSE, TRUE), 2)>>
    /\ pipePc = "prioritize"
    /\ uniqueDocs = documents
    /\ mainDocs = <<documents[1]>>
    /\ examDocs = <<documents[2]>>
    /\ docIdx = 2
    /\ allTopics \in TopicLists
    /\ successCount = 1
    /\ lastResp = <<>>
    /\ lastGenErr = FALSE
    /\ mainTopics = allTopics
    /\ finalTopics = <<>>
    /\ pipeErr = FALSE
    /\ pipeCtxDone = FALSE
    /\ genCalls = 1
    /\ rankCalls = 0
    /\ analysisLog = <<[doc |-> documents[1], err |-> FALSE,
                        topics |-> allTopics]>>

\* AnalyzeDocumentsParallel up to the call of analyzeDocumentsSequentially:
\* deduplicate, categorize, enter the loop over the primary documents
PipelineStart ==
    /\ pipePc = "start"
    /\ uniqueDocs' = deduplicateDocuments(documents)
    /\ mainDocs' = categorizeDocuments(uniqueDocs').main
    /\ examDocs' = categorizeDocuments(uniqueDocs').exams
    /\ docIdx' = 1
    /\ pipePc' = "analyze"
    /\ UNCHANGED <<documents, analysisLog, allTopics, successCount, lastResp,
                   lastGenErr,
                   mainTopics, finalTopics, pipeErr, pipeCtxDone, genCalls,
                   rankCalls>>

\* the loop with a break instead of the continue on a failed document
AnalyzeDocStopOnError ==
    /\ pipePc = "analyze"
    /\ docIdx <= Len(mainDocs)
    /\ \E gen \in {GenError} \cup {GenText(t) : t \in AnalysisTexts} :
          /\ (pipeCtxDone => gen.err)
          /\ lastGenErr' = gen.err
          /\ lastResp' = gen.text
          /\ LET parsed == parseTopicsFromResponse(gen.text)
                 failed == gen.err \/ parsed.err
             IN  /\ analysisLog' =
                        Append(analysisLog,
                               [doc |-> mainDocs[docIdx], err |-> failed,
                                topics |-> IF failed THEN <<>>
                                           ELSE parsed.topics])
                 /\ IF failed
                    THEN UNCHANGED <<allTopics, successCount>>
                    ELSE /\ allTopics' = allTopics \o parsed.topics
                         /\ successCount' = successCount + 1
    /\ genCalls' = genCalls + 1
    /\ docIdx' = IF analysisLog'[Len(analysisLog')].err
                 THEN Len(mainDocs) + 1 ELSE docIdx + 1
    /\ UNCHANGED <<documents, pipePc, uniqueDocs, mainDocs, examDocs,
                   mainTopics, finalTopics, pipeErr, pipeCtxDone, rankCalls>>

\* one iteration of the loop of analyzeDocumentsSequentially:
\* analyzeOneDocument issues one Generate call (which fails under a
\* cancelled context) and parses the response; on an error the document is
\* skipped, else its topics are appended
AnalyzeDoc ==
    /\ pipePc = "analyze"
    /\ docIdx <= Len(mainDocs)
    /\ \E gen \in {GenError} \cup {GenText(t) : t \in AnalysisTexts} :
          /\ (pipeCtxDone => gen.err)
          /\ lastGenErr' = gen.err
          /\ lastResp' = gen.text
          /\ LET parsed == parseTopicsFromResponse(gen.text)
                 failed == gen.err \/ parsed.err
             IN  /\ analysisLog' =
                        Append(analysisLog,
                               [doc |-> mainDocs[docIdx], err |-> failed,
                                topics |-> IF failed THEN <<>>
                                           ELSE parsed.topics])
                 /\ IF failed
                    THEN UNCHANGED <<allTopics, successCount>>
                    ELSE /\ allTopics' = allTopics \o parsed.topics
                         /\ successCount' = successCount + 1
    /\ genCalls' = genCalls + 1
    /\ docIdx' = docIdx + 1
    /\ UNCHANGED <<documents, pipePc, uniqueDocs, mainDocs, examDocs,
                   mainTopics, finalTopics, pipeErr, pipeCtxDone, rankCalls>>

\* the loop is over: mainTopics := allTopics, and phase 2 is entered
\* if len(examDocs) > 0 && len(mainTopics) > 0
AnalyzeLoopEnd ==
    /\ pipePc = "analyze"
    /\ docIdx > Len(mainDocs)
    /\ mainTopics' = allTopics
    /\ pipePc' = IF Len(examDocs) > 0 /\ Len(allTopics) > 0
                 THEN "prioritize" ELSE "finalize"
    /\ UNCHANGED <<documents, analysisLog, uniqueDocs, mainDocs, examDocs,
                   docIdx,
                   allTopics, successCount, lastResp, lastGenErr,
                   finalTopics, pipeErr, pipeCtxDone, genCalls, rankCalls>>

\* mainTopics = ap.prioritizeWithExams(ctx, mainTopics, examDocs)
Prioritize ==
    /\ pipePc = "prioritize"
    /\ \E gen \in {GenError} \cup {GenText(t) : t \in RankTexts} :
          /\ (pipeCtxDone => gen.err)
          /\ LET r == prioritizeWithExams(mainTopics, examDocs, gen)
             IN  /\ mainTopics' = r.topics
                 /\ allTopics' = r.input
                 /\ pipePc' = IF r.panic THEN "panicked" ELSE "finalize"
                 /\ rankCalls' = rankCalls + (IF r.called THEN 1 ELSE 0)
                 /\ lastGenErr' = IF r.called THEN gen.err ELSE lastGenErr
                 /\ lastResp' = IF r.called THEN gen.text ELSE lastResp
    /\ UNCHANGED <<documents, analysisLog, uniqueDocs, mainDocs, examDocs,
                   docIdx,
                   successCount, finalTopics, pipeErr,
                   pipeCtxDone, genCalls>>

\* the pipeline that returns the reordered list as it is
PipelineFinalizeNoDedup ==
    /\ pipePc = "finalize"
    /\ finalTopics' = mainTopics
    /\ pipeErr' = FALSE
    /\ pipePc' = "done"
    /\ UNCHANGED <<documents, analysisLog, uniqueDocs, mainDocs, examDocs,
                   docIdx,
                   allTopics, successCount, lastResp, lastGenErr, mainTopics,
                   pipeCtxDone, genCalls, rankCalls>>

\* finalTopics := deduplicateTopics(mainTopics); return finalTopics, nil
PipelineFinalize ==
    /\ pipePc = "finalize"
    /\ finalTopics' = deduplicateTopics(mainTopics)
    /\ pipeErr' = FALSE
    /\ pipePc' = "done"
    /\ UNCHANGED <<documents, analysisLog, uniqueDocs, mainDocs, examDocs,
                   docIdx,
                   allTopics, successCount, lastResp, lastGenErr, mainTopics,
                   pipeCtxDone, genCalls, rankCalls>>

\* the context of the pipeline is cancelled or reaches its deadline
PipelineCancel ==
    /\ pipePc \in {"analyze", "prioritize"}
    /\ ~pipeCtxDone
    /\ pipeCtxDone' = TRUE
    /\ UNCHANGED <<documents, analysisLog, pipePc, uniqueDocs, mainDocs,
                   examDocs, docIdx,
                   allTopics, successCount, lastResp, lastGenErr, mainTopics,
                   finalTopics, pipeErr, genCalls, rankCalls>>

(***************************************************************************)
(* Reference content of the ranking prompt (prioritizeWithExams)           *)
(***************************************************************************)
\* content lengths of reference documents
ExamSizes == {0, 1995, 2000, 2500}

\* the loop over examDocs: content is cut to 2000, written with a "\n",
\* and the loop breaks once examContent.Len() > 10000
RECURSIVE ExamContentLoop(_, _, _)
ExamContentLoop(sizes, parts, len) ==
    IF sizes = <<>> THEN [parts |-> parts, len |-> len]
    ELSE LET content == IF Head(sizes) > MaxCharsPerExam
                        THEN MaxCharsPerExam ELSE Head(sizes)
             written == len + content + 1
         IN  IF written > MaxExamChars
             THEN [parts |-> Append(parts, content), len |-> written]
             ELSE ExamContentLoop(Tail(sizes), Append(parts, content),
                                  written)

ExamIdle ==
    /\ examSizes = <<>>
    /\ examParts = <<>>
    /\ examLen = 0
    /\ examPc = "idle"

ExamInit ==
    /\ examSizes \in UNION {[1..k -> ExamSizes] : k \in 1..MaxExamDocs}
    /\ examParts = <<>>
    /\ examLen = 0
    /\ examPc = "ready"

\* prioritizeWithExams collects the reference content
CollectExamContent ==
    /\ examPc = "ready"
    /\ examParts' = ExamContentLoop(examSizes, <<>>, 0).parts
    /\ examLen' = ExamContentLoop(examSizes, <<>>, 0).len
    /\ examPc' = "collected"
    /\ UNCHANGED examSizes

(***************************************************************************)
(* The provider's active model (OllamaProvider.defaultModel)               *)
(***************************************************************************)
\* model names: the interactive model, the fast model of the AgentPool
\* (ap.config.FastModel), another installed model
FastModel == "fast"
Models == {"main", FastModel, "alt"}

\* the value of a read of defaultModel that is concurrent with a write of
\* another goroutine: the string header is written without synchronisation
TornModel == "torn"

\* the pipeline is between its GetCurrentModel and its restore
InOverride == mPc \in {"set", "generate", "restore"}

\* the pipeline is about to write defaultModel
PipelineWrites ==
    \/ mPc = "set" /\ (mDocsLeft = 0 \/ FastModel # oldModel)
    \/ mPc = "restore" /\ deferred

\* what the pipeline can read from defaultModel
PipelineReads ==
    {defaultModel} \cup (IF pendingSel # "none" THEN {TornModel} ELSE {})

\* what another caller of the provider can read from defaultModel
OtherReads ==
    {defaultModel}
        \cup (IF pendingSel # "none" \/ PipelineWrites
              THEN {TornModel} ELSE {})

ModelIdle ==
    /\ defaultModel = "main"
    /\ selected = "main"
    /\ mPc = "idle"
    /\ oldModel = "none"
    /\ deferred = FALSE
    /\ mDocsLeft = 0
    /\ mRank = FALSE
    /\ pipeUsed = "none"
    /\ otherUsed = "none"
    /\ otherExpected = "none"
    /\ otherDuring = FALSE
    /\ pendingSel = "none"
    /\ selects = 0
    /\ conflicts = {}

\* the pipeline is at its first analyzeOneDocument
ModelInit ==
    /\ defaultModel \in Models
    /\ selected = defaultModel
    /\ mPc = "get"
    /\ oldModel = "none"
    /\ deferred = FALSE
    /\ mDocsLeft \in 1..MaxModelDocs
    /\ mRank \in BOOLEAN
    /\ pipeUsed = "none"
    /\ otherUsed = "none"
    /\ otherExpected = "none"
    /\ otherDuring = FALSE
    /\ pendingSel = "none"
    /\ selects = 0
    /\ conflicts = {}

\* oldModel := ap.provider.GetCurrentModel()
PipeGetModel ==
    /\ mPc = "get"
    /\ oldModel' \in PipelineReads
    /\ mPc' = "set"
    /\ UNCHANGED <<defaultModel, selected, deferred, mDocsLeft, mRank,
                   pipeUsed, otherUsed, otherExpected, otherDuring,
                   pendingSel, selects, conflicts>>

\* analyzeOneDocument: if FastModel != "" && FastModel != oldModel
\* { SetModel(FastModel); defer SetModel(oldModel) };
\* prioritizeWithExams: if FastModel != "" { the same }
PipeSetModel ==
    /\ mPc = "set"
    /\ IF mDocsLeft = 0 \/ FastModel # oldModel
       THEN defaultModel' = FastModel /\ deferred' = TRUE
       ELSE UNCHANGED defaultModel /\ deferred' = FALSE
    /\ mPc' = "generate"
    /\ UNCHANGED <<selected, oldModel, mDocsLeft, mRank, pipeUsed, otherUsed,
                   otherExpected, otherDuring, pendingSel, selects,
                   conflicts>>

\* Generate: model := o.defaultModel in generateWithRetry
PipeGenerate ==
    /\ mPc = "generate"
    /\ pipeUsed' \in PipelineReads
    /\ mPc' = "restore"
    /\ UNCHANGED <<defaultModel, selected, oldModel, deferred, mDocsLeft,
                   mRank, otherUsed, otherExpected, otherDuring, pendingSel,
                   selects, conflicts>>

\* the call returns: the deferred SetModel(oldModel) runs (SetModel ignores
\* ""), and the pipeline goes to its next call or returns
PipeRestore ==
    /\ mPc = "restore"
    /\ IF deferred
       THEN defaultModel' = oldModel
       ELSE UNCHANGED defaultModel
    /\ deferred' = FALSE
    /\ IF mDocsLeft > 0
       THEN /\ mDocsLeft' = mDocsLeft - 1
            /\ mPc' = IF mDocsLeft > 1 \/ mRank THEN "get" ELSE "returned"
            /\ UNCHANGED mRank
       ELSE /\ mRank' = FALSE
            /\ mPc' = "returned"
            /\ UNCHANGED mDocsLeft
    /\ UNCHANGED <<selected, oldModel, pipeUsed, otherUsed, otherExpected,
                   otherDuring, pendingSel, selects, conflicts>>

\* Handler.SetModel has decoded the request and checks the model with
\* GetModels
SelectStart(m) ==
    /\ pendingSel = "none"
    /\ selects < MaxSelects
    /\ pendingSel' = m
    /\ selects' = selects + 1
    /\ UNCHANGED <<defaultModel, selected, mPc, oldModel, deferred,
                   mDocsLeft, mRank, pipeUsed, otherUsed, otherExpected,
                   otherDuring, conflicts>>

\* Handler.SetModel: h.llm.SetModel(req.Model)
SelectWrite ==
    /\ pendingSel # "none"
    /\ defaultModel' = pendingSel
    /\ selected' = pendingSel
    /\ pendingSel' = "none"
    /\ conflicts' = IF InOverride THEN conflicts \cup {"write"}
                    ELSE conflicts
    /\ UNCHANGED <<mPc, oldModel, deferred, mDocsLeft, mRank, pipeUsed,
                   otherUsed, otherExpected, otherDuring, selects>>

\* another goroutine calls Generate, GenerateStream or Chat:
\* model := o.defaultModel
OtherGenerate ==
    /\ otherUsed' \in OtherReads
    /\ otherExpected' = selected
    /\ otherDuring' = (mPc # "returned")
    /\ conflicts' = IF InOverride THEN conflicts \cup {"read"}
                    ELSE conflicts
    /\ UNCHANGED <<defaultModel, selected, mPc, oldModel, deferred,
                   mDocsLeft, mRank, pipeUsed, pendingSel, selects>>

(***************************************************************************)
(* Handler.CreateStudyPlan (internal/storage/storage.go)                  *)
(***************************************************************************)
Requests == 1..NumRequests

\* the positions of a request that has set studyPlanInProgress and has not
\* yet run its deferred function to the end
AdmittedPcs == {"decode", "load", "analyze", "plan", "save", "deferred",
                "clear"}

PlanIdle ==
    /\ studyPlanInProgress = FALSE
    /\ studyPlanMutex = 0
    /\ rPc = [r \in Requests |-> "idle"]
    /\ rStatus = [r \in Requests |-> 0]
    /\ rAnalysed = [r \in Requests |-> FALSE]

\* a POST request reaches CreateStudyPlan
PlanRequest(r) ==
    /\ rPc[r] = "idle"
    /\ rPc' = [rPc EXCEPT ![r] = "lock"]
    /\ UNCHANGED <<studyPlanInProgress, studyPlanMutex, rStatus, rAnalysed>>

\* studyPlanMutex.Lock()
PlanLock(r) ==
    /\ rPc[r] = "lock"
    /\ studyPlanMutex = 0
    /\ studyPlanMutex' = r
    /\ rPc' = [rPc EXCEPT ![r] = "check"]
    /\ UNCHANGED <<studyPlanInProgress, rStatus, rAnalysed>>

\* if studyPlanInProgress { Unlock; 429; return };
\* studyPlanInProgress = true; Unlock; the deferred function is registered
PlanCheck(r) ==
    /\ rPc[r] = "check"
    /\ studyPlanMutex' = 0
    /\ IF studyPlanInProgress
       THEN /\ rStatus' = [rStatus EXCEPT ![r] = 429]
            /\ rPc' = [rPc EXCEPT ![r] = "done"]
            /\ UNCHANGED studyPlanInProgress
       ELSE /\ studyPlanInProgress' = TRUE
            /\ rPc' = [rPc EXCEPT ![r] = "decode"]
            /\ UNCHANGED rStatus
    /\ UNCHANGED rAnalysed

\* the body is decoded and the exam date parsed: 400 and return on a
\* failure of either
PlanDecode(r) ==
    /\ rPc[r] = "decode"
    /\ \E ok \in BOOLEAN :
          IF ok
          THEN /\ rPc' = [rPc EXCEPT ![r] = "load"]
               /\ UNCHANGED rStatus
          ELSE /\ rPc' = [rPc EXCEPT ![r] = "deferred"]
               /\ rStatus' = [rStatus EXCEPT ![r] = 400]
    /\ UNCHANGED <<studyPlanInProgress, studyPlanMutex, rAnalysed>>

\* the documents are loaded with a return that does not run the deferred
\* function when none is found
PlanLoadDocsKeepsFlag(r) ==
    /\ rPc[r] = "load"
    /\ \E found \in BOOLEAN :
          IF found
          THEN /\ rPc' = [rPc EXCEPT ![r] = "analyze"]
               /\ UNCHANGED rStatus
          ELSE /\ rPc' = [rPc EXCEPT ![r] = "done"]
               /\ rStatus' = [rStatus EXCEPT ![r] = 400]
    /\ UNCHANGED <<studyPlanInProgress, studyPlanMutex, rAnalysed>>

\* the documents are loaded: if len(docs) == 0 { 400; return }
PlanLoadDocs(r) ==
    /\ rPc[r] = "load"
    /\ \E found \in BOOLEAN :
          IF found
          THEN /\ rPc' = [rPc EXCEPT ![r] = "analyze"]
               /\ UNCHANGED rStatus
          ELSE /\ rPc' = [rPc EXCEPT ![r] = "deferred"]
               /\ rStatus' = [rStatus EXCEPT ![r] = 400]
    /\ UNCHANGED <<studyPlanInProgress, studyPlanMutex, rAnalysed>>

\* topics, err := h.tutor.AnalyzeDocuments(ctx, docs): it returns topics,
\* returns an error (500), or panics, which unwinds through the deferred
\* function without a response
PlanAnalyze(r) ==
    /\ rPc[r] = "analyze"
    /\ rAnalysed' = [rAnalysed EXCEPT ![r] = TRUE]
    /\ \E out \in {"ok", "error", "panic"} :
          /\ rPc' = [rPc EXCEPT ![r] = IF out = "ok" THEN "plan"
                                        ELSE "deferred"]
          /\ rStatus' = [rStatus EXCEPT ![r] = IF out = "error" THEN 500
                                                ELSE @]
    /\ UNCHANGED <<studyPlanInProgress, studyPlanMutex>>

\* plan, err := h.tutor.CreateStudyPlan(...): 500 and return on an error
PlanCreate(r) ==
    /\ rPc[r] = "plan"
    /\ \E ok \in BOOLEAN :
          IF ok
          THEN /\ rPc' = [rPc EXCEPT ![r] = "save"]
               /\ UNCHANGED rStatus
          ELSE /\ rPc' = [rPc EXCEPT ![r] = "deferred"]
               /\ rStatus' = [rStatus EXCEPT ![r] = 500]
    /\ UNCHANGED <<studyPlanInProgress, studyPlanMutex, rAnalysed>>

\* h.store.SaveStudyPlan(plan): 500 on an error, else 201
PlanSave(r) ==
    /\ rPc[r] = "save"
    /\ \E ok \in BOOLEAN :
          rStatus' = [rStatus EXCEPT ![r] = IF ok THEN 201 ELSE 500]
    /\ rPc' = [rPc EXCEPT ![r] = "deferred"]
    /\ UNCHANGED <<studyPlanInProgress, studyPlanMutex, rAnalysed>>

\* the deferred function: studyPlanMutex.Lock()
PlanDeferLock(r) ==
    /\ rPc[r] = "deferred"
    /\ studyPlanMutex = 0
    /\ studyPlanMutex' = r
    /\ rPc' = [rPc EXCEPT ![r] = "clear"]
    /\ UNCHANGED <<studyPlanInProgress, rStatus, rAnalysed>>

\* the deferred function: studyPlanInProgress = false; Unlock
PlanDeferClear(r) ==
    /\ rPc[r] = "clear"
    /\ studyPlanInProgress' = FALSE
    /\ studyPlanMutex' = 0
    /\ rPc' = [rPc EXCEPT ![r] = "done"]
    /\ UNCHANGED <<rStatus, rAnalysed>>

\* the handler has returned; the client may send its next request
PlanReturn(r) ==
    /\ rPc[r] = "done"
    /\ rPc' = [rPc EXCEPT ![r] = "idle"]
    /\ rStatus' = [rStatus EXCEPT ![r] = 0]
    /\ rAnalysed' = [rAnalysed EXCEPT ![r] = FALSE]
    /\ UNCHANGED <<studyPlanInProgress, studyPlanMutex>>

Init ==
    /\ GateInit /\ StreamInit /\ ExtractIdle /\ PipeIdle /\ ExamIdle
    /\ ModelIdle /\ PlanIdle

GateNext ==
    \E p \in Callers :
        \/ CallGenerate(p)
        \/ GenerateAcquire(p)
        \/ RetryLoopHead(p)
        \/ DoGenerateReturn(p)
        \/ GenerateRelease(p)
        \/ CancelCtx(p)
        \/ CallerReturn(p)
        \/ StreamRequestStart(p)
        \/ StreamRequestEnd(p)
        \/ ChatRequestStart(p)
        \/ ChatRequestEnd(p)

Next == GateNext
    /\ UNCHANGED <<streamVars, extractVars, pipeVars, examVars, modelVars,
                   planVars>>

Spec == Init /\ [][Next]_vars

\* the gate with the goroutines of LiveCallers running requests
LiveNext ==
    /\ \E p \in LiveCallers :
          \/ CallGenerate(p)
          \/ GenerateAcquire(p)
          \/ RetryLoopHead(p)
          \/ DoGenerateReturn(p)
          \/ GenerateRelease(p)
          \/ CancelCtx(p)
          \/ CallerReturn(p)
          \/ StreamRequestStart(p)
          \/ StreamRequestEnd(p)
          \/ ChatRequestStart(p)
          \/ ChatRequestEnd(p)
    /\ UNCHANGED <<streamVars, extractVars, pipeVars, examVars, modelVars,
                   planVars>>

\* a step of the goroutine that can take the slot or holds it
HolderStep ==
    \E p \in Callers :
        \/ GenerateAcquire(p)
        \/ RetryLoopHead(p)
        \/ DoGenerateReturn(p)
        \/ GenerateRelease(p)

\* scheduling: a free slot is taken when a goroutine is blocked on the
\* send, and the goroutine that holds the slot runs: its sleep ends, its
\* backend attempt returns, its deferred release executes
GateFairness == WF_vars(LiveNext /\ HolderStep)

SpecLive == Init /\ [][LiveNext]_vars /\ GateFairness

StreamSteps ==
    \/ GenerateStream
    \/ GenerateStreamFails
    \/ ProducerDecodeFrame
    \/ ProducerDecodeError
    \/ ProducerDecodeEOF
    \/ ProducerSend
    \/ ConsumerReceive
    \/ ConsumerRangeEnd
    \/ ConsumerStall
    \/ StreamCancel

StreamNext == StreamSteps
    /\ UNCHANGED <<gateVars, extractVars, pipeVars, examVars, modelVars,
                   planVars>>

SpecStream == Init /\ [][StreamNext]_vars

InitExtract ==
    /\ GateInit /\ StreamInit /\ ExtractInit /\ PipeIdle /\ ExamIdle
    /\ ModelIdle /\ PlanIdle

ExtractSteps ==
    \/ CallExtractJSON
    \/ CallParseTopics

ExtractNext == ExtractSteps
    /\ UNCHANGED <<gateVars, streamVars, pipeVars, examVars, modelVars,
                   planVars>>

SpecExtract == InitExtract /\ [][ExtractNext]_vars

InitPipeline ==
    /\ GateInit /\ StreamInit /\ ExtractIdle /\ PipeInit /\ ExamIdle
    /\ ModelIdle /\ PlanIdle

PipelineSteps ==
    \/ PipelineStart
    \/ AnalyzeDoc
    \/ AnalyzeLoopEnd
    \/ Prioritize
    \/ PipelineFinalize
    \/ PipelineCancel

PipelineNext ==
    PipelineSteps
    /\ UNCHANGED <<gateVars, streamVars, extractVars, examVars, modelVars,
                   planVars>>

SpecPipeline == InitPipeline /\ [][PipelineNext]_vars

InitRank ==
    /\ GateInit /\ StreamInit /\ ExtractIdle /\ RankInit /\ ExamIdle
    /\ ModelIdle /\ PlanIdle

RankSteps ==
    \/ Prioritize
    \/ PipelineFinalize
    \/ PipelineCancel

RankNext == RankSteps
    /\ UNCHANGED <<gateVars, streamVars, extractVars, examVars, modelVars,
                   planVars>>

SpecRank == InitRank /\ [][RankNext]_vars

InitExam ==
    /\ GateInit /\ StreamInit /\ ExtractIdle /\ PipeIdle /\ ExamInit
    /\ ModelIdle /\ PlanIdle

ExamSteps == CollectExamContent

ExamNext ==
    ExamSteps
    /\ UNCHANGED <<gateVars, streamVars, extractVars, pipeVars, modelVars,
                   planVars>>

SpecExam == InitExam /\ [][ExamNext]_vars

InitModel ==
    /\ GateInit /\ StreamInit /\ ExtractIdle /\ PipeIdle /\ ExamIdle
    /\ ModelInit /\ PlanIdle

ModelSteps ==
    \/ PipeGetModel
    \/ PipeSetModel
    \/ PipeGenerate
    \/ PipeRestore
    \/ \E m \in Models : SelectStart(m)
    \/ SelectWrite
    \/ OtherGenerate

ModelNext ==
    ModelSteps
        /\ UNCHANGED <<gateVars, streamVars, extractVars, pipeVars, examVars,
                       planVars>>

SpecModel == InitModel /\ [][ModelNext]_vars

PlanSteps ==
    \E r \in Requests :
        \/ PlanRequest(r)
        \/ PlanLock(r)
        \/ PlanCheck(r)
        \/ PlanDecode(r)
        \/ PlanLoadDocs(r)
        \/ PlanAnalyze(r)
        \/ PlanCreate(r)
        \/ PlanSave(r)
        \/ PlanDeferLock(r)
        \/ PlanDeferClear(r)
        \/ PlanReturn(r)

PlanNext ==
    PlanSteps
        /\ UNCHANGED <<gateVars, streamVars, extractVars, pipeVars, examVars,
                       modelVars>>

SpecPlan == Init /\ [][PlanNext]_vars

TypeOK ==
    /\ ollamaSemaphore \in 0..SemCap
    /\ holders \subseteq Callers
    /\ Len(ch) <= ChanCap

(***************************************************************************)
(* Properties of the admission gate and of Generate                        *)
(***************************************************************************)
Last(sq) == sq[Len(sq)]

\* callers inside a doGenerate attempt
InDoGenerate == {p \in Callers : pc[p] = "call"}

\* callers with a request in flight against the backend, of any kind
InFlight == {p \in Callers : pc[p] \in {"call", "stream", "chat"}}

\* callers inside the retry loop of generateWithRetry
InRetryLoop(p) == pc[p] \in {"loop", "call"}

\* C1: with any number of concurrent callers of Generate, at most one of
\* them is between the start and the end of a doGenerate attempt.
C1_OneGenerateInFlight == Cardinality(InDoGenerate) <= 1

\* one caller is inside doGenerate while two others wait at the gate
C1_Witness ==
    \E p, q, r \in Callers :
        /\ p # q /\ p # r /\ q # r
        /\ pc[p] = "call" /\ pc[q] = "acquire" /\ pc[r] = "acquire"

\* C2: across Generate, GenerateStream and Chat taken together, at most one
\* request is in flight against the backend at any instant.
C2_OneRequestInFlight == Cardinality(InFlight) <= 1

\* C3: while a caller is inside its retry loop (attempts and the sleeps
\* between them) it holds the slot, which it acquired once and has not
\* released, and no other caller has begun an attempt of its own call.
C3_RetriesNotInterleaved ==
    \A p \in Callers :
        InRetryLoop(p) =>
            /\ p \in holders
            /\ acq[p] = 1
            /\ rel[p] = 0
            /\ \A q \in Callers \ {p} :
                  /\ pc[q] \notin {"loop", "call", "release"}
                  /\ hist[q] = <<>>

\* a caller is in its third attempt while another caller waits at the gate
C3_Witness ==
    \E p, q \in Callers :
        /\ p # q
        /\ pc[p] = "call" /\ attempt[p] = MaxRetries /\ Len(hist[p]) = 2
        /\ pc[q] = "acquire"

\* C4: the tokens in the gate are exactly those of the callers that hold
\* it, a caller never releases more often than it acquired, and when
\* Generate has returned (with a response, an error or the cancellation
\* error) the caller has acquired once, released once and holds nothing.
C4_AcquireReleasePaired ==
    /\ ollamaSemaphore = Cardinality(holders)
    /\ \A p \in Callers :
          /\ rel[p] <= acq[p]
          /\ (p \in holders) <=> (acq[p] = rel[p] + 1)
          /\ (pc[p] = "done" /\ result[p] # NoValue) =>
                (p \notin holders /\ acq[p] = 1 /\ rel[p] = 1)

\* three calls have returned: one by success, one by retry exhaustion and
\* one by cancellation
C4_Witness ==
    \E p, q, r \in Callers :
        /\ pc[p] = "done" /\ result[p].kind = "resp"
        /\ pc[q] = "done" /\ result[q].kind = "err"
        /\ pc[r] = "done" /\ result[r] = CtxErr

\* the attempts of p before the latest one all failed under a live context
EarlierAttemptsTransient(p) ==
    \A i \in 1..(Len(hist[p]) - 1) :
        hist[p][i].out \in ErrClasses /\ ~hist[p][i].cancelled

\* C5: no attempt follows a successful one, and when attempts 1..k-1 failed
\* with a transient error and attempt k succeeded, Generate returns the
\* response of attempt k after exactly k <= 3 attempts.
C5_SuccessAfterTransientFailures ==
    \A p \in Callers :
        /\ \A i \in 1..(Len(hist[p]) - 1) : hist[p][i].out # "ok"
        /\ (hist[p] # <<>> /\ Last(hist[p]).out = "ok"
               /\ EarlierAttemptsTransient(p)) =>
              /\ pc[p] = "release"
              /\ result[p] = Resp(Len(hist[p]))
              /\ Len(hist[p]) <= MaxRetries

\* a call succeeds in attempt 3 after a crash error and another error
C5_Witness ==
    \E p \in Callers :
        /\ pc[p] = "release"
        /\ Len(hist[p]) = 3
        /\ hist[p][1].out = "crash"
        /\ hist[p][2].out = "other"
        /\ hist[p][3].out = "ok"
        /\ result[p] = Resp(3)

\* every attempt of p so far failed under a live context
AllAttemptsTransient(p) ==
    \A i \in 1..Len(hist[p]) :
        hist[p][i].out \in ErrClasses /\ ~hist[p][i].cancelled

\* C6: when every attempt failed with a transient error, Generate returns
\* after exactly 3 attempts, and what it returns is the error of attempt 3.
C6_ExhaustionReturnsLastError ==
    \A p \in Callers :
        (pc[p] = "release" /\ AllAttemptsTransient(p)) =>
            /\ Len(hist[p]) = MaxRetries
            /\ result[p] = Err(MaxRetries, hist[p][MaxRetries].out)

\* three attempts failed with differing errors and the call returns the third
C6_Witness ==
    \E p \in Callers :
        /\ pc[p] = "release"
        /\ AllAttemptsTransient(p)
        /\ Len(hist[p]) = 3
        /\ hist[p][1].out = "other"
        /\ hist[p][2].out = "other"
        /\ hist[p][3].out = "crash"
        /\ result[p] = Err(3, "crash")

\* C7: an attempt that failed while the context was cancelled is the last
\* attempt, whatever its error text: Generate goes on to return the
\* cancellation error.
C7_CancellationNeverRetried ==
    \A p \in Callers :
        (hist[p] # <<>> /\ Last(hist[p]).out # "ok"
            /\ Last(hist[p]).cancelled) =>
              (pc[p] = "release" /\ result[p] = CtxErr)

(***************************************************************************)
(* Properties of the stream                                                *)
(***************************************************************************)
\* ChatStream has returned from a stream that was opened
ConsumerDone == consPc = "returned" /\ prodPc # "none"

\* C8: when the consumer has seen the end of the stream, it has received
\* at least one chunk and the last one has done = true or carries an error.
C8_LastChunkTerminal ==
    ConsumerDone =>
        /\ received # <<>>
        /\ (Last(received).done \/ Last(received).error)

\* the chunks of a response of n partial frames followed by a done frame
ExpectedChunks(n) ==
    [i \in 1..(n + 1) |-> IF i <= n THEN ContentChunk(i) ELSE DoneChunk(i)]

\* C9: a done frame is the last frame read, and for a response of n partial
\* frames followed by a done frame the consumer has received, when its loop
\* ends, the n content chunks in frame order and then the done chunk, from
\* a channel that is closed and empty.
C9_FramesUpToDone ==
    /\ \A i \in 1..(Len(decoded) - 1) : decoded[i] = "partial"
    /\ (ConsumerDone /\ decoded # <<>> /\ Last(decoded) = "done") =>
          /\ received = ExpectedChunks(Len(decoded) - 1)
          /\ chClosed
          /\ ch = <<>>
          /\ prodPc = "exited"

\* the scenario of 5 partial frames and a done frame, consumed to the end
C9_Witness ==
    /\ ConsumerDone
    /\ decoded = <<"partial", "partial", "partial", "partial", "partial",
                   "done">>
    /\ Len(received) = 6
    /\ received[6] = DoneChunk(6)

\* C10: once the consumer has stopped receiving, the producer is not in a
\* send into a full queue (a send that nothing can complete any more, so
\* that the body and the channel stay open).
C10_ProducerNotStuckOnSend ==
    ~(/\ consPc \in {"stalled", "returned"}
      /\ prodPc = "send"
      /\ Len(ch) = ChanCap)

(***************************************************************************)
(* Properties of the structured extractor                                  *)
(***************************************************************************)
NoBraces(text) == \A i \in 1..Len(text) : text[i].c \notin {"{", "}"}

\* nesting depth after each token of s
RECURSIVE Depth(_, _)
Depth(s, k) ==
    IF k = 0 THEN 0
    ELSE Depth(s, k - 1) + (IF s[k].c = "{" THEN 1
                            ELSE IF s[k].c = "}" THEN -1 ELSE 0)

\* a payload: one object, from its '{' to the matching '}'
WellFormedPayload(s) ==
    /\ Len(s) >= 2
    /\ s[1].c = "{"
    /\ s[Len(s)].c = "}"
    /\ Depth(s, Len(s)) = 0
    /\ \A k \in 1..(Len(s) - 1) : Depth(s, k) > 0

\* text is prose, then the payload text[i..j], then prose
EmbedsPayload(text, i, j) ==
    /\ 1 <= i /\ i < j /\ j <= Len(text)
    /\ NoBraces(SubSeq(text, 1, i - 1))
    /\ NoBraces(SubSeq(text, j + 1, Len(text)))
    /\ WellFormedPayload(SubSeq(text, i, j))

\* C11: for a text made of prose without delimiters, one well-formed
\* payload and prose without delimiters, extractJSON returns the payload
\* and nothing of the prose.
C11_ExtractsEmbeddedPayload ==
    exPc \in {"extracted", "parsed"} =>
        \A i, j \in 1..Len(exText) :
            EmbedsPayload(exText, i, j) => exOut = SubSeq(exText, i, j)

\* a payload of one member between two pieces of prose has been extracted
C11_Witness ==
    /\ exPc = "extracted"
    /\ Len(exText) = 5
    /\ exText[1] = Prose /\ exText[5] = Prose
    /\ exText[2] = OpenBrace /\ exText[3].c = "m" /\ exText[4] = CloseBrace
    /\ exOut = SubSeq(exText, 2, 4)

\* the elements of sq at the indices in idx, in the order of sq
RECURSIVE KeepIdx(_, _, _)
KeepIdx(sq, idx, i) ==
    IF i > Len(sq) THEN <<>>
    ELSE (IF i \in idx THEN <<sq[i]>> ELSE <<>>) \o KeepIdx(sq, idx, i + 1)

\* a text without a "{", without a "}", or whose last "}" is before its
\* first "{"
NoDelimiterPair(text) ==
    \/ \A i \in 1..Len(text) : text[i] # OpenBrace
    \/ \A i \in 1..Len(text) : text[i] # CloseBrace
    \/ \E j \in 1..Len(text) :
          /\ text[j] = CloseBrace
          /\ \A k \in (j + 1)..Len(text) : text[k] # CloseBrace
          /\ \E i \in (j + 1)..Len(text) :
                /\ text[i] = OpenBrace
                /\ \A k \in 1..(i - 1) : text[k] # OpenBrace

\* C12: when the response to a document's analysis call has no pair of
\* delimiters, or has them in the wrong order, the extractor gives the empty
\* payload and the loop goes on to the next document without an error and
\* without adding a topic.
C12_NoDelimitersNoTopics ==
    [][(/\ pipePc = "analyze"
        /\ docIdx' = docIdx + 1
        /\ ~lastGenErr'
        /\ NoDelimiterPair(lastResp'))
       => (/\ extractJSON(lastResp') = EmptyObject
           /\ allTopics' = allTopics
           /\ successCount' = successCount + 1
           /\ pipePc' = "analyze")]_vars

C12_Witness ==
    /\ pipePc = "analyze"
    /\ docIdx = 2
    /\ docIdx <= Len(mainDocs)
    /\ ~lastGenErr
    /\ lastResp = <<CloseBrace, OpenBrace>>
    /\ allTopics = <<>>
    /\ successCount = 1

\* the indices of the topics whose lower-cased name does not occur earlier
FirstTopicIdx(topics) ==
    {i \in 1..Len(topics) :
        \A j \in 1..(i - 1) :
            ToLower(topics[j].name) # ToLower(topics[i].name)}

\* C14: a ranking call is issued only when there is at least one reference
\* document and at least one topic; without a reference document or without
\* a topic no ranking call is issued and the pipeline returns the topics in
\* the order of the analysis, deduplicated.
C14_RankingOnlyWithExamsAndTopics ==
    /\ rankCalls > 0 => (Len(examDocs) > 0 /\ Len(allTopics) > 0)
    /\ (pipePc = "done" /\ (Len(examDocs) = 0 \/ Len(allTopics) = 0))
          => /\ rankCalls = 0
             /\ finalTopics = KeepIdx(allTopics, FirstTopicIdx(allTopics), 1)

C14_Witness ==
    /\ pipePc = "done"
    /\ Len(examDocs) = 0
    /\ Len(allTopics) = 3
    /\ Len(finalTopics) = 2
    /\ rankCalls = 0

\* the ranking a response text carries, if the ranking call succeeded with it
RankingDecoded(text) ==
    /\ ~InlineExtract(text).panic
    /\ JsonValid(InlineExtract(text).json)

RankingOf(text) == JsonMember(InlineExtract(text).json).priority

\* the place of a topic in the list handed to prioritizeWithExams
OriginalIndex(t) == CHOOSE p \in 1..Len(allTopics) : allTopics[p] = t

C15_FatalErrorIffCancelledOrNoneUsable ==
    pipePc = "done" => (pipeErr <=> (pipeCtxDone \/ successCount = 0))

\* C16: deduplicating the deduplicated documents again changes nothing.
C16_DedupDocumentsIdempotent ==
    pipePc # "start" => deduplicateDocuments(uniqueDocs) = uniqueDocs

C16_Witness ==
    /\ pipePc = "analyze"
    /\ Len(documents) = 3
    /\ Len(uniqueDocs) = 2
    /\ deduplicateDocuments(uniqueDocs) = uniqueDocs

\* C17: the topics the pipeline returns are the reordered topics without the
\* ones whose name, ignoring letter case, occurred earlier: the first
\* occurrence stays, in its place, and no name occurs twice.
C17_TopicsDeduplicatedIgnoringCase ==
    pipePc = "done" =>
        /\ finalTopics = KeepIdx(mainTopics, FirstTopicIdx(mainTopics), 1)
        /\ \A i, j \in 1..Len(finalTopics) :
              ToLower(finalTopics[i].name) = ToLower(finalTopics[j].name)
                  => i = j

C17_Witness ==
    /\ pipePc = "done"
    /\ Len(finalTopics) = 2
    /\ \E i, j \in 1..Len(mainTopics) :
          /\ i < j
          /\ mainTopics[i].name # mainTopics[j].name
          /\ ToLower(mainTopics[i].name) = ToLower(mainTopics[j].name)
          /\ finalTopics[1] = mainTopics[i]

\* the indices of the documents whose exact name does not occur earlier
FirstDocIdx(docs) ==
    {i \in 1..Len(docs) :
        \A j \in 1..(i - 1) : docs[j].name # docs[i].name}

\* C18: the deduplicated documents are the first occurrences of each exact
\* name, in their order; two names that differ in letter case only are both
\* kept.
C18_DocumentsDeduplicatedByExactName ==
    pipePc # "start" =>
        uniqueDocs = KeepIdx(documents, FirstDocIdx(documents), 1)

C18_Witness ==
    /\ pipePc = "analyze"
    /\ Len(uniqueDocs) < Len(documents)
    /\ \E i, j \in 1..Len(uniqueDocs) :
          /\ uniqueDocs[i].name.base = uniqueDocs[j].name.base
          /\ uniqueDocs[i].name.upper # uniqueDocs[j].name.upper

\* C19: no two of the deduplicated documents have the same name ignoring
\* letter case.  (Violated: the key is the exact name.)
C19_DocumentsDeduplicatedIgnoringCase ==
    pipePc # "start" =>
        \A i, j \in 1..Len(uniqueDocs) :
            (/\ uniqueDocs[i].name.base = uniqueDocs[j].name.base
             /\ uniqueDocs[i].name.exam = uniqueDocs[j].name.exam) => i = j

\* C20: Generate has not slept when attempt 1 starts, and when a later
\* attempt starts after an attempt that failed with an error that is not a
\* crash, it has slept attempt * 2 seconds since that failure: 4 seconds
\* before attempt 2, 6 seconds before attempt 3.
C20_BackoffBeforeAttempt ==
    \A p \in Callers :
        pc[p] = "call" =>
            /\ attempt[p] = 1 => slept[p] = 0
            /\ (attempt[p] > 1 /\ ~IsCrashError(Last(hist[p]).out)) =>
                  /\ slept[p] = attempt[p] * 2
                  /\ attempt[p] = 2 => slept[p] = 4
                  /\ attempt[p] = 3 => slept[p] = 6

C20_Witness ==
    \E p \in Callers :
        /\ pc[p] = "call"
        /\ attempt[p] = 3
        /\ Len(hist[p]) = 2
        /\ ~IsCrashError(hist[p][1].out)
        /\ ~IsCrashError(hist[p][2].out)
        /\ slept[p] = 6

\* C21: when an attempt starts after an attempt that failed with a crash
\* error, Generate has slept 5 seconds since that failure.  (Violated: the
\* backoff of the next iteration is added to the cool-down.)
C21_CrashCooldownIsTotalSleep ==
    \A p \in Callers :
        (/\ pc[p] = "call"
         /\ attempt[p] > 1
         /\ IsCrashError(Last(hist[p]).out)) => slept[p] = 5

\* C22: prioritizeWithExams returns normally for every outcome of its
\* Generate call, and when no ranking was decoded (an error, or a text that
\* does not decode) the topics keep their original order.  (Violated: a
\* text whose last "}" is before its first "{" makes the slice panic.)
C22_RankingNeverFailsPipeline ==
    /\ pipePc # "panicked"
    /\ (/\ pipePc \in {"finalize", "done"}
        /\ rankCalls = 1
        /\ (lastGenErr \/ ~RankingDecoded(lastResp)))
          => mainTopics = allTopics

\* the topics of the calls of a log that succeeded, in the order of the log
RECURSIVE TopicsOfLog(_)
TopicsOfLog(lg) ==
    IF lg = <<>> THEN <<>>
    ELSE (IF Head(lg).err THEN <<>> ELSE Head(lg).topics)
         \o TopicsOfLog(Tail(lg))

\* C23: the loop issues one Generate call per primary document, in input
\* order and one after the other; a document whose call or decoding fails
\* is skipped and the loop goes on; the accumulated topics are the topics of
\* the documents that succeeded, concatenated in document order.
C23_SequentialAnalysisInOrder ==
    /\ genCalls = Len(analysisLog)
    /\ \A i \in 1..Len(analysisLog) : analysisLog[i].doc = mainDocs[i]
    /\ allTopics = TopicsOfLog(analysisLog)
    /\ pipePc = "analyze" => genCalls = docIdx - 1
    /\ pipePc \in {"prioritize", "finalize", "done", "panicked"}
          => genCalls = Len(mainDocs)

C23_Witness ==
    /\ pipePc = "finalize"
    /\ Len(mainDocs) = 3
    /\ genCalls = 3
    /\ ~analysisLog[1].err /\ Len(analysisLog[1].topics) = 1
    /\ analysisLog[2].err
    /\ ~analysisLog[3].err /\ Len(analysisLog[3].topics) = 2
    /\ allTopics = analysisLog[1].topics \o analysisLog[3].topics

\* the sum of the elements of a sequence of numbers
RECURSIVE SumSeq(_)
SumSeq(sq) == IF sq = <<>> THEN 0 ELSE Head(sq) + SumSeq(Tail(sq))

\* C24: each reference document contributes at most 2000 characters and
\* the reference content of the prompt is at most 10000 characters.
\* (Violated: the loop tests the length after it has written a document.)
C24_ReferenceContentCaps ==
    examPc = "collected" =>
        /\ \A i \in 1..Len(examParts) : examParts[i] <= 2000
        /\ SumSeq(examParts) <= 10000

\* callers blocked in acquireOllama
Waiting == {p \in Callers : pc[p] = "acquire"}

\* C25: every caller that holds the slot eventually gives it back, so a
\* free slot with callers waiting is eventually taken by one of them, also
\* after a holder left by cancellation; and a caller ends its attempts with
\* the cancellation error only if its own context is cancelled.
C25_GateNeverDeadlocks ==
    /\ (holders # {}) ~> (holders = {})
    /\ (Waiting # {} /\ holders = {}) ~> (holders # {})
    /\ [](\A p \in Callers :
             (pc[p] = "release" /\ result[p] = CtxErr) => ctxDone[p])

C25_Witness ==
    \E p, w \in Callers :
        /\ pc[p] = "done" /\ result[p] = CtxErr
        /\ w # p /\ w \in holders /\ ~ctxDone[w] /\ attempt[w] = 2

\* C26: no goroutine other than the pipeline reads or writes the
\* provider's active model while the pipeline is between reading it and
\* restoring it.  (Violated: the select-model handler writes it and other
\* callers read it, without synchronisation.)
C26_ActiveModelNotShared == conflicts = {}

\* C27: when the pipeline has returned the active model is the model of the
\* latest select-model request (or the one active before the pipeline), and
\* a request of another caller issued while the pipeline ran used the
\* selected model.  (Violated both ways.)
C27_FastModelOverrideInvisible ==
    /\ (mPc = "returned" /\ pendingSel = "none") => defaultModel = selected
    /\ (otherUsed # "none" /\ otherDuring) => otherUsed = otherExpected

\* sq is tq with its elements in another order
IsPermutation(sq, tq) ==
    /\ Len(sq) = Len(tq)
    /\ \E f \in [1..Len(sq) -> 1..Len(sq)] :
          /\ \A i, j \in 1..Len(sq) : f[i] = f[j] => i = j
          /\ \A i \in 1..Len(sq) : sq[i] = tq[f[i]]

\* C28: whenever prioritizeWithExams has returned, for any ranking, its
\* result holds the topics of the analysis in some order, none dropped,
\* repeated or changed, and the list it was given is as it was.
C28_RankingOnlyPermutes ==
    pipePc \in {"finalize", "done"} =>
        /\ IsPermutation(mainTopics, TopicsOfLog(analysisLog))
        /\ allTopics = TopicsOfLog(analysisLog)

C28_Witness ==
    /\ pipePc = "finalize"
    /\ rankCalls = 1
    /\ RankingDecoded(lastResp)
    /\ Len(RankingOf(lastResp)) = 3
    /\ Len(mainTopics) = 3
    /\ mainTopics # allTopics
    /\ IsPermutation(mainTopics, allTopics)

\* C29: a caller whose context is cancelled while it waits for the gate
\* does not take the slot.  (Violated: the send on the channel does not
\* look at the context, so the caller acquires, issues an attempt, and
\* waits as long as the holder keeps the slot.)
C29_AcquireHonoursCancellation ==
    [][\A p \in Callers :
          (pc[p] = "acquire" /\ ctxDone[p]) => pc'[p] # "loop"]_vars

\* the requests that are past the admission check
Admitted == {r \in Requests : rPc[r] \in AdmittedPcs}

\* C30: at most one request is past the admission check; a request that
\* was answered 429 has not started an analysis; and the flag is set
\* exactly while a request is admitted, whichever way that request leaves,
\* so that a request arriving when none is running is admitted.
C30_StudyPlanSingleFlight ==
    /\ Cardinality(Admitted) <= 1
    /\ \A r \in Requests : rStatus[r] = 429 => ~rAnalysed[r]
    /\ studyPlanInProgress <=> (Admitted # {})

C30_Witness ==
    \E a, b, c \in Requests :
        /\ rPc[a] = "done" /\ rStatus[a] = 400
        /\ rPc[b] = "analyze"
        /\ rPc[c] = "done" /\ rStatus[c] = 429
        /\ studyPlanInProgress

====
